---- MODULE Spec2Model ----
(***************************************************************************)
(* Scenario world lifecycle (src/fixtures/world.ts), the Before/After      *)
(* hooks of the step definitions, the artifact configuration resolver      *)
(* (src/config/artifacts.ts) and the report scripts (playwright.config.ts, *)
(* scripts/convert-cucumber-to-junit.js) of the playwright-cucumber        *)
(* framework.                                                              *)
(***************************************************************************)
EXTENDS Integers, Sequences, FiniteSets, TLC

VARIABLES env, config, world, disk, report

vars == <<env, config, world, disk, report>>

(***************************************************************************)
(* Bounds of the model.                                                    *)
(***************************************************************************)
\* parallel workers, each running one scenario in its own world
NumWorlds == 2
\* distinct values Date.now() can return while the scenarios clean up
MaxStamp == 2

(***************************************************************************)
(* Environment variables.  A variable is unset, or holds a string; the     *)
(* code compares against the exact strings "true" and "false" only.        *)
(***************************************************************************)
Unset == "<unset>"
EnvValues == {Unset, "true", "false"}

ArtifactVars ==
  {"SCREENSHOTS", "NO_SCREENSHOTS", "VIDEOS", "NO_VIDEOS", "TRACES", "NO_TRACES",
   "ARTIFACTS_ON_SUCCESS", "FORCE_SCREENSHOTS", "FORCE_VIDEOS", "FORCE_TRACES",
   "NO_ARTIFACTS"}

EnvVars == ArtifactVars \cup {"CI"}

\* process.env.CI used as a condition: any non-empty string is truthy
CI(e) == e["CI"] # Unset

(***************************************************************************)
(* getTestArtifactConfig: the record literal, then the FORCE_ overrides,   *)
(* then the NO_ARTIFACTS override, in the order the statements run.        *)
(***************************************************************************)
\* mutant: a flag stays enabled only for the values the documentation lists
ConfigLiteralListedValuesOnly(e) ==
  [screenshots   |-> e["SCREENSHOTS"] \in {Unset, "true"} /\ e["NO_SCREENSHOTS"] \in {Unset, "false"},
   videos        |-> e["VIDEOS"] \in {Unset, "true"} /\ e["NO_VIDEOS"] \in {Unset, "false"},
   traces        |-> e["TRACES"] \in {Unset, "true"} /\ e["NO_TRACES"] \in {Unset, "false"},
   onlyOnFailure |-> e["ARTIFACTS_ON_SUCCESS"] \in {Unset, "false"}]

ConfigLiteral(e) ==
  [screenshots   |-> e["SCREENSHOTS"] # "false" /\ e["NO_SCREENSHOTS"] # "true",
   videos        |-> e["VIDEOS"] # "false" /\ e["NO_VIDEOS"] # "true",
   traces        |-> e["TRACES"] # "false" /\ e["NO_TRACES"] # "true",
   onlyOnFailure |-> e["ARTIFACTS_ON_SUCCESS"] # "true"]

ForceOverrides(e, c) ==
  [c EXCEPT !.screenshots = IF e["FORCE_SCREENSHOTS"] = "true" THEN TRUE ELSE @,
            !.videos      = IF e["FORCE_VIDEOS"] = "true" THEN TRUE ELSE @,
            !.traces      = IF e["FORCE_TRACES"] = "true" THEN TRUE ELSE @]

DisableAll(e, c) ==
  IF e["NO_ARTIFACTS"] = "true"
    THEN [c EXCEPT !.screenshots = FALSE, !.videos = FALSE, !.traces = FALSE]
    ELSE c

\* mutant: the NO_ARTIFACTS override runs before the FORCE_ overrides
getTestArtifactConfigForceLast(e) == ForceOverrides(e, DisableAll(e, ConfigLiteral(e)))

\* mutant: the FORCE_ overrides run first and the per-type disables win
getTestArtifactConfigDisableWins(e) ==
  LET c == ConfigLiteral(e)
      f == ForceOverrides(e, [c EXCEPT !.screenshots = FALSE, !.videos = FALSE, !.traces = FALSE])
  IN DisableAll(e, [c EXCEPT !.screenshots = @ /\ f.screenshots,
                             !.videos = @ /\ f.videos, !.traces = @ /\ f.traces])

getTestArtifactConfig(e) == DisableAll(e, ForceOverrides(e, ConfigLiteral(e)))

Unresolved == [screenshots |-> FALSE, videos |-> FALSE, traces |-> FALSE,
               onlyOnFailure |-> FALSE, resolved |-> FALSE]

Resolved(c) == [screenshots |-> c.screenshots, videos |-> c.videos,
                traces |-> c.traces, onlyOnFailure |-> c.onlyOnFailure,
                resolved |-> TRUE]


(***************************************************************************)
(* Timeouts of cleanup() and the time a browser operation may take (ms).   *)
(***************************************************************************)
TracingStopTimeout == 3000
CleanupTimeoutCI == 8000
CleanupTimeoutLocal == 15000

cleanupTimeout(e) == IF CI(e) THEN CleanupTimeoutCI ELSE CleanupTimeoutLocal

\* After({ timeout: 15000 }, ...): the runner fails the After hook when it has
\* not settled by then
AfterHookTimeout == 15000

\* how long one awaited browser operation may take: quick, slow, or hung
Durations == {1000, 6000, 20000}

(***************************************************************************)
(* setScenarioName: name.replace(/[^a-zA-Z0-9-]/g, "-").toLowerCase(),     *)
(* over strings represented as sequences of characters.                    *)
(***************************************************************************)
Capitals ==
  <<"A", "B", "C", "D", "E", "F", "G", "H", "I", "J", "K", "L", "M",
    "N", "O", "P", "Q", "R", "S", "T", "U", "V", "W", "X", "Y", "Z">>
Alphabet ==
  <<"a", "b", "c", "d", "e", "f", "g", "h", "i", "j", "k", "l", "m",
    "n", "o", "p", "q", "r", "s", "t", "u", "v", "w", "x", "y", "z">>

UpperCase == {Capitals[i] : i \in DOMAIN Capitals}
LowerCase == {Alphabet[i] : i \in DOMAIN Alphabet}
Digits == {"0", "1", "2", "3", "4", "5", "6", "7", "8", "9"}

ToLower(c) ==
  IF c \in UpperCase THEN Alphabet[CHOOSE i \in DOMAIN Capitals : Capitals[i] = c]
  ELSE c

\* String.prototype.toLowerCase
toLowerCase(s) == [i \in 1..Len(s) |-> ToLower(s[i])]

ReplaceChar(c) == IF c \in UpperCase \cup LowerCase \cup Digits \cup {"-"} THEN c ELSE "-"

setScenarioName(name) == [i \in 1..Len(name) |-> ToLower(ReplaceChar(name[i]))]

\* scenario.pickle.name of the scenario each worker runs
PickleName(w) == IF w % 2 = 1 THEN <<"L", "o", " ", "1">> ELSE <<"l", "o", ":", "1">>

(***************************************************************************)
(* The browser init() launches: this.config.browser is the world parameter *)
(* "browser" (process.env.BROWSER || "chromium" in the cucumber profiles), *)
(* or "chromium" when the parameter is missing or empty.                   *)
(***************************************************************************)
Firefox == <<"f", "i", "r", "e", "f", "o", "x">>
Webkit == <<"w", "e", "b", "k", "i", "t">>
Safari == <<"s", "a", "f", "a", "r", "i">>
Chromium == <<"c", "h", "r", "o", "m", "i", "u", "m">>
Chrome == <<"c", "h", "r", "o", "m", "e">>

\* options.parameters?.browser: missing or empty, the five names of the
\* switch in other spellings, and names the switch does not list
BrowserParameters ==
  {<<>>, Firefox, Webkit, Safari, Chromium, Chrome,
   <<"F", "i", "r", "e", "f", "o", "x">>, <<"F", "I", "R", "E", "F", "O", "X">>,
   <<"W", "e", "b", "K", "i", "t">>, <<"S", "a", "f", "a", "r", "i">>,
   <<"C", "h", "r", "o", "m", "e">>, <<"C", "H", "R", "O", "M", "I", "U", "M">>,
   <<"e", "d", "g", "e">>, <<"f", "i", "r", "e", "f", "o", "x", " ">>,
   <<"o", "p", "e", "r", "a">>, <<"w", "e", "b", "k", "i", "t", "2">>}

\* browser: options.parameters?.browser || "chromium"
ConfigBrowser(parameter) == IF parameter = <<>> THEN Chromium ELSE parameter

\* mutant: the switch compares the name as it was configured
BrowserTypeCaseSensitive(name) ==
  CASE name = Firefox -> "firefox"
    [] name \in {Webkit, Safari} -> "webkit"
    [] OTHER -> "chromium"

\* switch (this.config.browser.toLowerCase()): the implementation launched
BrowserType(name) ==
  LET lower == toLowerCase(name)
  IN CASE lower = Firefox -> "firefox"
       [] lower \in {Webkit, Safari} -> "webkit"
       [] OTHER -> "chromium"

(***************************************************************************)
(* Files.  A trace path is built from the sanitized scenario name and      *)
(* Date.now(); the video path is chosen by the browser driver per page.    *)
(***************************************************************************)
\* this.scenarioName || "scenario"
NameOrDefault(name) == IF name = <<>> THEN <<"s">> ELSE name

NoPath == [kind |-> "none"]
TracePath(name, stamp) == [kind |-> "trace", name |-> name, stamp |-> stamp]
VideoPath(w) == [kind |-> "video", page |-> w]

(***************************************************************************)
(* The world: CustomWorld's fields, the position of the hook that is       *)
(* running on it (pc), the position of closeResources() (cr), and what has *)
(* been called on it so far.  A browser, context or page handle is named   *)
(* by the world whose init() call created the object (0: no object);       *)
(* closed holds the handles this world has called close() on; launched     *)
(* holds the browser implementations launch() was called on, in order;     *)
(* retry is the state of a TestUtils.retryAction call on the world's page. *)
(***************************************************************************)
NewWorld ==
  [pc |-> "ready", cr |-> "idle",
   browser |-> "undef", context |-> "undef", page |-> "undef",
   pageManager |-> FALSE, scenarioName |-> <<>>, authenticationAttempts |-> -1,
   tracing |-> "off", result |-> "UNKNOWN",
   scenarioFailed |-> FALSE, tracePath |-> NoPath, videoPath |-> NoPath,
   attached |-> <<>>, screenshot |-> "none",
   initCalls |-> 0, cleanupCalls |-> 0, stopCalls |-> 0,
   pageClose |-> "none", contextClose |-> "none", browserClose |-> "none",
   forceClose |-> "none",
   nPageClose |-> 0, nContextClose |-> 0, nBrowserClose |-> 0, nForceClose |-> 0,
   timedOut |-> "none", stopFailed |-> FALSE, cleanup |-> "none", after |-> "none",
   t |-> 0, raceStart |-> 0, attachThrew |-> FALSE,
   credentials |-> [username |-> "<undefined>", password |-> "<undefined>"],
   lastError |-> FALSE, authenticationStartTime |-> 0, dashboardLoadStartTime |-> 0,
   step |-> "", stepArg |-> "", stepThrew |-> "none", pomCalls |-> 0, pageCalls |-> 0,
   launchCalls |-> 0, browserHandle |-> 0, contextHandle |-> 0, pageHandle |-> 0,
   closed |-> {}, browserName |-> Chromium, launched |-> <<>>,
   retry |-> [pc |-> "idle", maxAttempts |-> 0, delay |-> 0, attempt |-> 0,
              lastError |-> [kind |-> "undefined", n |-> 0],
              thrown |-> [kind |-> "none", n |-> 0], value |-> 0,
              waited |-> 0, events |-> <<>>]]

\* the environments the lifecycle is explored under
AllUnset == [v \in EnvVars |-> Unset]

LifecycleEnvs ==
  {[AllUnset EXCEPT !["VIDEOS"] = videos, !["TRACES"] = traces,
                    !["SCREENSHOTS"] = screenshots,
                    !["ARTIFACTS_ON_SUCCESS"] = onSuccess, !["CI"] = ci] :
     videos \in {Unset, "false"}, traces \in {Unset, "false"},
     screenshots \in {Unset, "false"},
     onSuccess \in {Unset, "true"}, ci \in {Unset, "true"}}

\* the environments the parallel workers are explored under
ParallelEnvs == {AllUnset}

\* the environments the configuration resolver is explored under
ConfigEnvs ==
  {[v \in EnvVars |-> IF v = "CI" THEN Unset ELSE f[v]] : f \in [ArtifactVars -> EnvValues]}

\* A string no comparison of getTestArtifactConfig matches, and per variable
\* the listed string that leaves the default in place: the resolver tests
\* SCREENSHOTS, VIDEOS and TRACES against "false" and every other variable
\* against "true".
Unrecognized == "1"
Ineffective(v) == IF v \in {"SCREENSHOTS", "VIDEOS", "TRACES"} THEN "true" ELSE "false"

\* every variable unset, or set to a value the resolver does not act on
DefaultEnvs ==
  {[v \in EnvVars |-> IF v = "CI" THEN Unset
                       ELSE IF f[v] = "ineffective" THEN Ineffective(v) ELSE f[v]] :
     f \in [ArtifactVars -> {Unset, Unrecognized, "ineffective"}]}

Set(w, r) == world' = [world EXCEPT ![w] = r]

(***************************************************************************)
(* cleanup(scenarioFailed), from its last statement back to its first.     *)
(***************************************************************************)
\* cleanup() resolves; the hook that awaited it returns
CleanupReturn(r) ==
  [r EXCEPT !.cleanup = "returned", !.pc = "done",
            !.after = IF @ = "running" THEN "returned" ELSE @]

\* mutant: the catch block only logs the error
ForceCloseSkipped(r) == CleanupReturn(r)

\* catch (error): force close the browser if the handle is set
ForceClose(r) ==
  IF r.browser # "undef"
    THEN [r EXCEPT !.pc = "forceClose", !.forceClose = "started",
                   !.nForceClose = @ + 1,
                   !.closed = @ \cup {<<"browser", r.browserHandle>>}]
    ELSE CleanupReturn(r)

\* closeResources(): the browser, last
CloseBrowser(r) ==
  IF r.browser # "undef"
    THEN [r EXCEPT !.cr = "browser", !.browserClose = "started",
                   !.nBrowserClose = @ + 1,
                   !.closed = @ \cup {<<"browser", r.browserHandle>>}]
    ELSE [r EXCEPT !.cr = "done"]

\* closeResources(): the context
CloseContext(r) ==
  IF r.context # "undef"
    THEN [r EXCEPT !.cr = "context", !.contextClose = "started",
                   !.nContextClose = @ + 1,
                   !.closed = @ \cup {<<"context", r.contextHandle>>}]
    ELSE CloseBrowser(r)

\* mutant: page.close() is called without await
ClosePageNoAwait(r) ==
  IF r.page = "open"
    THEN CloseContext([r EXCEPT !.pageClose = "started", !.nPageClose = @ + 1,
                                !.closed = @ \cup {<<"page", r.pageHandle>>}])
    ELSE CloseContext(r)

\* closeResources(): the page first, if it is there and not closed
ClosePage(r) ==
  IF r.page = "open"
    THEN [r EXCEPT !.cr = "page", !.pageClose = "started", !.nPageClose = @ + 1,
                   !.closed = @ \cup {<<"page", r.pageHandle>>}]
    ELSE CloseContext(r)

\* the race of closeResources() against the cleanup timeout is settled by
\* closeResources() when cleanup() still awaits it
Settle(r) == IF r.pc = "closing" /\ r.cr = "done" THEN CleanupReturn(r) ELSE r

\* await Promise.race([this.closeResources(), timeout(cleanupTimeout)])
CloseRace(r) ==
  Settle(ClosePage([r EXCEPT !.pc = "closing", !.raceStart = r.t]))

\* mutant: the attach block runs whatever scenarioFailed is
AttachBlockAlways(r) == [r EXCEPT !.pc = "attachTrace"]

\* if (scenarioFailed) { attach ... }
AttachBlock(r) == IF r.scenarioFailed THEN [r EXCEPT !.pc = "attachTrace"] ELSE CloseRace(r)

\* if (this.artifactConfig.videos && this.page && !this.page.isClosed())
VideoBlock(r) ==
  IF config.videos /\ r.page = "open" THEN [r EXCEPT !.pc = "video"] ELSE AttachBlock(r)

\* const shouldKeep = scenarioFailed || !this.artifactConfig.onlyOnFailure
shouldKeep(r) == r.scenarioFailed \/ ~config.onlyOnFailure

\* mutant: tracing is stopped only where init() started it
CleanupBeginIfStarted(r, scenarioFailed, stamp) ==
  LET r1 == [r EXCEPT !.scenarioFailed = scenarioFailed, !.cleanup = "running",
                      !.cleanupCalls = @ + 1, !.t = 0]
  IN IF config.traces /\ r1.context # "undef" /\ r1.tracing = "started"
       THEN [r1 EXCEPT !.pc = "tracingStop",
                       !.tracePath = TracePath(NameOrDefault(r.scenarioName), stamp),
                       !.stopCalls = @ + 1, !.tracing = "stopping"]
       ELSE VideoBlock(r1)

\* cleanup(scenarioFailed) up to its first await; stamp is Date.now()
CleanupBegin(r, scenarioFailed, stamp) ==
  LET r1 == [r EXCEPT !.scenarioFailed = scenarioFailed, !.cleanup = "running",
                      !.cleanupCalls = @ + 1, !.t = 0]
  IN IF config.traces /\ r1.context # "undef"
       THEN [r1 EXCEPT !.pc = "tracingStop",
                       !.tracePath = TracePath(NameOrDefault(r.scenarioName), stamp),
                       !.stopCalls = @ + 1,
                       !.tracing = IF @ = "started" THEN "stopping" ELSE @]
       ELSE VideoBlock(r1)

\* browser.close() closes the browser with its contexts and pages
BrowserClosed(r) ==
  [r EXCEPT !.browser = "closed",
            !.context = IF @ = "undef" THEN @ ELSE "closed",
            !.page = IF @ = "undef" THEN @ ELSE "closed"]

\* context.close() closes the context with its pages
ContextClosed(r) ==
  [r EXCEPT !.context = "closed", !.page = IF @ = "undef" THEN @ ELSE "closed"]


(***************************************************************************)
(* The Before hook and init().                                             *)
(***************************************************************************)
\* init() throws: the Before hook fails, the runner skips the steps, marks
\* the scenario FAILED and still runs the After hook
BeforeFailed(r) == [r EXCEPT !.result = "FAILED", !.pc = "after"]

BeforeHook(w) ==
  /\ world[w].pc = "ready"
  /\ Set(w, [world[w] EXCEPT !.scenarioName = setScenarioName(PickleName(w)),
                             !.initCalls = @ + 1, !.pc = "launch"])
  /\ UNCHANGED <<env, config, disk, report>>

\* mutant: a failed launch is tried once more
LaunchWithRetry(w) ==
  /\ world[w].pc = "launch"
  /\ \E ok \in BOOLEAN :
       LET r == [world[w] EXCEPT !.launchCalls = @ + 1,
                                 !.launched = Append(@, BrowserType(world[w].browserName))]
       IN Set(w, IF ok THEN [r EXCEPT !.browser = "open", !.browserHandle = w,
                                      !.pc = "newContext"]
                 ELSE IF r.launchCalls < 2 THEN r ELSE BeforeFailed(r))
  /\ UNCHANGED <<env, config, disk, report>>

\* mutant: the worlds of a process share the first browser that was launched
LaunchSharedBrowser(w) ==
  /\ world[w].pc = "launch"
  /\ \E ok \in BOOLEAN :
       LET r == [world[w] EXCEPT !.launchCalls = @ + 1,
                                 !.launched = Append(@, BrowserType(world[w].browserName))]
           launched == {world[v].browserHandle : v \in DOMAIN world} \ {0}
       IN Set(w, IF ok THEN [r EXCEPT !.browser = "open",
                                      !.browserHandle =
                                        IF launched = {} THEN w ELSE CHOOSE h \in launched : TRUE,
                                      !.pc = "newContext"]
                       ELSE BeforeFailed(r))
  /\ UNCHANGED <<env, config, disk, report>>

\* this.browser = await <browserType>.launch(...); then newContext is called.
\* A rejected launch rejects init(): there is no catch around the switch.
Launch(w) ==
  /\ world[w].pc = "launch"
  /\ \E ok \in BOOLEAN :
       LET r == [world[w] EXCEPT !.launchCalls = @ + 1,
                                 !.launched = Append(@, BrowserType(world[w].browserName))]
       IN Set(w, IF ok THEN [r EXCEPT !.browser = "open", !.browserHandle = w,
                                      !.pc = "newContext"]
                       ELSE BeforeFailed(r))
  /\ UNCHANGED <<env, config, disk, report>>

\* this.context = await this.browser.newContext(contextOptions)
NewContext(w) ==
  /\ world[w].pc = "newContext"
  /\ \E ok \in BOOLEAN :
       Set(w, IF ok THEN [world[w] EXCEPT !.context = "open", !.contextHandle = w,
                            !.pc = IF config.traces THEN "tracingStart" ELSE "newPage"]
                    ELSE BeforeFailed(world[w]))
  /\ UNCHANGED <<env, config, disk, report>>

\* if (this.artifactConfig.traces) await this.context.tracing.start(...)
TracingStart(w) ==
  /\ world[w].pc = "tracingStart"
  /\ \E ok \in BOOLEAN :
       Set(w, IF ok THEN [world[w] EXCEPT !.tracing = "started", !.pc = "newPage"]
                    ELSE BeforeFailed(world[w]))
  /\ UNCHANGED <<env, config, disk, report>>

\* this.page = await this.context.newPage(); pageManager; back in the Before
\* hook authenticationAttempts = 0.  With recordVideo set the driver starts
\* writing the page's video file.
NewPage(w) ==
  /\ world[w].pc = "newPage"
  /\ \E ok \in BOOLEAN :
       /\ Set(w, IF ok THEN [world[w] EXCEPT !.page = "open", !.pageHandle = w,
                               !.pageManager = TRUE,
                               !.authenticationAttempts = 0, !.pc = "steps"]
                       ELSE BeforeFailed(world[w]))
       /\ disk' = IF ok /\ config.videos THEN disk \cup {VideoPath(w)} ELSE disk
  /\ UNCHANGED <<env, config, report>>

\* the runner executes the steps and records the scenario's result
RunSteps(w) ==
  /\ world[w].pc = "steps"
  /\ \E status \in {"PASSED", "FAILED"} :
       Set(w, [world[w] EXCEPT !.result = status, !.pc = "after"])
  /\ UNCHANGED <<env, config, disk, report>>

(***************************************************************************)
(* Test data (src/utils/test-data) and the step definitions of the         *)
(* authentication feature.  A step definition is the sequence of its       *)
(* statements that read or write the world: guards, calls on this.page,    *)
(* Page Object calls through this.pageManager, assignments and assertions. *)
(***************************************************************************)
NoCredentials == [username |-> "<undefined>", password |-> "<undefined>"]

EnvironmentNames == {"the-internet", "demo", "staging", "production"}
Roles == {"admin", "user", "readonly"}

\* testData.environments[envName].credentials[role]; the production values
\* come from PROD_* variables and default to ''
EnvironmentCredentials(envName, role) ==
  CASE envName = "the-internet" ->
         [username |-> "tomsmith", password |-> "SuperSecretPassword!"]
    [] envName = "demo" ->
         [username |-> IF role = "admin" THEN "admin"
                       ELSE IF role = "user" THEN "user" ELSE "readonly",
          password |-> IF role = "admin" THEN "admin123"
                       ELSE IF role = "user" THEN "user123" ELSE "readonly123"]
    [] envName = "staging" ->
         [username |-> IF role = "admin" THEN "admin@staging.com"
                       ELSE IF role = "user" THEN "testuser@staging.com"
                       ELSE "readonly@staging.com",
          password |-> IF role = "admin" THEN "StaginG@dm1n!"
                       ELSE IF role = "user" THEN "TestU$er123" ELSE "ReadOnlY456"]
    [] OTHER -> [username |-> "", password |-> ""]

\* getEnvironment throws for a name that is not a key of testData.environments
getEnvironment(envName) ==
  [threw |-> envName \notin EnvironmentNames, name |-> envName]

\* the backward-compatible intents of getCredentials
Intents == {"valid", "invalid", "demo", "staging"}

\* getCredentials(role, envName): an intent becomes the environment name
\* ('valid' becomes 'the-internet') and the role 'user'; then the lookup
getCredentials(role, envName) ==
  LET envName2 == IF role \in Intents
                    THEN (IF role = "valid" THEN "the-internet" ELSE role)
                    ELSE envName
      role2 == IF role \in Intents THEN "user" ELSE role
      e == getEnvironment(envName2)
  IN IF e.threw \/ role2 \notin Roles
       THEN [threw |-> TRUE, env |-> envName2, credentials |-> NoCredentials]
       ELSE [threw |-> FALSE, env |-> envName2,
             credentials |-> EnvironmentCredentials(envName2, role2)]

\* the statements of a step definition
Guard(fields) == [op |-> "guard", fields |-> fields, field |-> "", value |-> ""]
PageCall == [op |-> "page", fields |-> {"page"}, field |-> "", value |-> ""]
PageObjectCall == [op |-> "pom", fields |-> {"pageManager"}, field |-> "", value |-> ""]
\* loginPage.login(this.credentials.username, this.credentials.password)
Login == [op |-> "pom", fields |-> {"pageManager", "credentials"}, field |-> "", value |-> ""]
TryLogin == [op |-> "tryLogin", fields |-> {"pageManager", "credentials"}, field |-> "", value |-> ""]
Expect == [op |-> "expect", fields |-> {}, field |-> "", value |-> ""]
Assign(field, value) == [op |-> "assign", fields |-> {}, field |-> field, value |-> value]
Increment(field) == [op |-> "increment", fields |-> {}, field |-> field, value |-> ""]
AssignCredentials(intent) ==
  [op |-> "getCredentials", fields |-> {}, field |-> "credentials", value |-> intent]

\* the credential literals of the steps
CredentialLiterals ==
  [x \in {"incorrect username", "incorrect password", "empty username",
          "empty password", "both empty", "invalidCredentials", "special characters"} |->
     CASE x = "incorrect username" -> [username |-> "invalid@user.com", password |-> "validpass123"]
       [] x = "incorrect password" -> [username |-> "valid@user.com", password |-> "wrongpassword"]
       [] x = "empty username" -> [username |-> "", password |-> "password123"]
       [] x = "empty password" -> [username |-> "user@example.com", password |-> ""]
       [] x = "both empty" -> [username |-> "", password |-> ""]
       [] x = "invalidCredentials" -> [username |-> "invalid@user.com", password |-> "wrongpassword"]
       [] OTHER -> [username |-> "testuser", password |-> "P@ssw0rd!@#$%"]]

\* the strings the {string} parameter of 'I have {string} credentials' is
\* drawn from: the five cases of the switch and two that take the default
CredentialTypes ==
  {"incorrect username", "incorrect password", "empty username", "empty password",
   "both empty", "expired", "invalid"}

PageAndManager == {"page", "pageManager"}
PageManagerCredentials == {"page", "pageManager", "credentials"}

\* mutant: the guard of 'I attempt to authenticate' leaves credentials out
AttemptToAuthenticateUnguarded == <<Guard(PageAndManager), TryLogin>>

AttemptToAuthenticate == <<Guard(PageManagerCredentials), TryLogin>>

\* 'I have {string} credentials': the switch on credentialType
HaveCredentials(credentialType) ==
  IF credentialType \in {"incorrect username", "incorrect password", "empty username",
                         "empty password", "both empty"}
    THEN <<Assign("credentials", credentialType)>>
    ELSE <<AssignCredentials("invalid")>>

Step(name, arg, ops) == [name |-> name, arg |-> arg, ops |-> ops]

GivenSteps ==
  {Step("the login page is available", "",
        <<Guard(PageAndManager), PageObjectCall, PageObjectCall, PageObjectCall, Expect>>),
   Step("I have valid user credentials", "", <<AssignCredentials("valid")>>),
   Step("I have made multiple failed authentication attempts", "",
        <<Guard(PageAndManager), PageObjectCall,
          PageObjectCall, PageObjectCall, PageObjectCall, PageCall,
          PageObjectCall, PageObjectCall, PageObjectCall, PageCall,
          Assign("authenticationAttempts", "2"),
          Assign("credentials", "invalidCredentials")>>),
   Step("I have a password containing special characters", "",
        <<Assign("credentials", "special characters")>>),
   Step("the login interface is displayed", "",
        <<Guard(PageAndManager), PageObjectCall, PageObjectCall>>),
   Step("I am using a mobile device", "",
        <<Guard({"page"}), PageCall, Guard({"pageManager"}), PageObjectCall>>),
   Step("I have forgotten my password", "", <<Guard(PageAndManager), PageObjectCall>>),
   Step("I am a new user without an account", "", <<Guard(PageAndManager), PageObjectCall>>),
   Step("the authentication system is under normal load", "",
        <<Guard(PageAndManager), PageObjectCall, AssignCredentials("valid")>>),
   Step("I am authenticated and using the application", "",
        <<Guard(PageAndManager), PageObjectCall, AssignCredentials("valid"), Login, PageCall>>)}
    \cup {Step("I have {string} credentials", type, HaveCredentials(type)) :
            type \in CredentialTypes}

WhenSteps ==
  {Step("I authenticate with the application", "",
        <<Guard(PageManagerCredentials), Assign("authenticationStartTime", "now"), Login>>),
   Step("I authenticate with {string} enabled", "remember me",
        <<Guard(PageManagerCredentials), Login>>),
   Step("I attempt to authenticate", "", AttemptToAuthenticate),
   Step("I exceed the allowed failure threshold", "",
        <<Guard(PageManagerCredentials), Login, Increment("authenticationAttempts")>>),
   Step("I access the login interface", "", <<Guard(PageAndManager), PageObjectCall>>),
   Step("I request password recovery", "", <<Guard(PageAndManager)>>),
   Step("I choose to create an account", "", <<Guard(PageAndManager)>>),
   Step("I submit my credentials", "",
        <<Guard(PageManagerCredentials), Assign("authenticationStartTime", "now"), Login>>),
   Step("I authenticate with these credentials", "",
        <<Guard(PageManagerCredentials), Login>>),
   Step("I choose to logout", "", <<Guard(PageAndManager), PageObjectCall>>)}

ThenSteps ==
  {Step("I should be granted access to my account", "",
        <<Guard({"page"}), PageCall, PageCall, Expect>>),
   Step("I should see my personalized dashboard", "",
        <<Guard(PageAndManager), Assign("dashboardLoadStartTime", "now"),
          PageObjectCall, Expect>>),
   Step("my login session should be established", "", <<Guard({"page"}), PageCall, Expect>>),
   Step("my login session should persist across browser sessions", "",
        <<Guard({"page"}), PageCall, PageCall, Expect>>),
   Step("my authentication should be rejected", "",
        <<Guard(PageAndManager), PageCall, Expect, Expect>>),
   Step("I should see an appropriate error message", "",
        <<Guard(PageAndManager), PageObjectCall, Expect, Expect>>),
   Step("I should remain unauthenticated", "", <<Guard({"page"}), PageCall, Expect, Expect>>),
   Step("my account should be temporarily locked", "", <<Guard(PageAndManager)>>),
   Step("further authentication attempts should be blocked", "", <<Guard(PageAndManager)>>),
   Step("I should receive appropriate security notifications", "", <<Guard(PageAndManager)>>),
   Step("the authentication form should be fully accessible", "",
        <<Guard(PageAndManager), PageObjectCall, Expect>>),
   Step("all interactive elements should have proper labels", "",
        <<Guard(PageAndManager), PageCall, PageCall, Expect>>),
   Step("keyboard navigation should be fully functional", "",
        <<Guard({"page"}), PageCall, PageCall, Expect, PageCall, Expect>>),
   Step("screen reader compatibility should be maintained", "",
        <<Guard({"page"}), PageCall, Expect>>),
   Step("the interface should adapt to my screen size", "",
        <<Guard(PageAndManager), PageObjectCall, Expect>>),
   Step("all functionality should remain accessible", "",
        <<Guard(PageAndManager), PageObjectCall, Expect>>),
   Step("I should be guided through the reset process", "", <<Guard({"page"})>>),
   Step("I should receive appropriate recovery instructions", "", <<Guard({"page"})>>),
   Step("I should be guided to the registration process", "", <<Guard({"page"})>>),
   Step("I should be able to complete my account setup", "", <<Guard({"page"})>>),
   Step("authentication should complete promptly", "",
        <<Guard({"authenticationStartTime"}), Expect>>),
   Step("system response time should meet performance standards", "",
        <<Guard({"authenticationStartTime"}), Expect>>),
   Step("the system should handle the authentication correctly", "",
        <<Guard({"page"}), PageCall, PageCall, Expect>>),
   Step("character encoding should not affect the process", "",
        <<Guard(PageAndManager), PageCall, Expect>>),
   Step("my session should be completely terminated", "", <<Guard({"page"}), PageCall, Expect>>),
   Step("I should be returned to the unauthenticated state", "",
        <<Guard({"page"}), PageCall, Expect>>),
   Step("my session data should be properly cleared", "",
        <<Guard({"page"}), PageCall, Expect>>)}

StepDefinitions == GivenSteps \cup WhenSteps \cup ThenSteps

\* !this.<field>
Defined(r, field) ==
  CASE field = "page" -> r.page # "undef"
    [] field = "pageManager" -> r.pageManager
    [] field = "credentials" -> r.credentials # NoCredentials
    [] OTHER -> r.authenticationStartTime # 0

StepThrows(r, how) == [r EXCEPT !.stepThrew = how]

\* (this.authenticationAttempts || 0) + 1
IncrementAttempts(r) ==
  [r EXCEPT !.authenticationAttempts = IF @ = -1 THEN 1 ELSE @ + 1]

\* one statement of a step on the world r; fails says whether the call or
\* assertion of this statement rejects.  Reading a property of an undefined
\* field is a TypeError.
Statement(r, o, fails) ==
  CASE o.op = "guard" ->
         IF \A f \in o.fields : Defined(r, f) THEN r ELSE StepThrows(r, "guard")
    [] o.op = "page" ->
         IF \E f \in o.fields : ~Defined(r, f) THEN StepThrows(r, "TypeError")
         ELSE LET r2 == [r EXCEPT !.pageCalls = @ + 1]
              IN IF fails THEN StepThrows(r2, "call") ELSE r2
    [] o.op = "pom" ->
         IF \E f \in o.fields : ~Defined(r, f) THEN StepThrows(r, "TypeError")
         ELSE LET r2 == [r EXCEPT !.pomCalls = @ + 1]
              IN IF fails THEN StepThrows(r2, "call") ELSE r2
    [] o.op = "tryLogin" ->
         IF \E f \in o.fields : ~Defined(r, f) THEN [r EXCEPT !.lastError = TRUE]
         ELSE LET r2 == [r EXCEPT !.pomCalls = @ + 1]
              IN IF fails THEN [r2 EXCEPT !.lastError = TRUE] ELSE IncrementAttempts(r2)
    [] o.op = "expect" -> IF fails THEN StepThrows(r, "expect") ELSE r
    [] o.op = "increment" -> IncrementAttempts(r)
    [] o.op = "getCredentials" ->
         LET c == getCredentials(o.value, "the-internet")
         IN IF c.threw THEN StepThrows(r, "getCredentials")
            ELSE [r EXCEPT !.credentials = c.credentials]
    [] OTHER ->
         CASE o.field = "credentials" -> [r EXCEPT !.credentials = CredentialLiterals[o.value]]
           [] o.field = "authenticationAttempts" -> [r EXCEPT !.authenticationAttempts = 2]
           [] o.field = "authenticationStartTime" -> [r EXCEPT !.authenticationStartTime = 1]
           [] OTHER -> [r EXCEPT !.dashboardLoadStartTime = 1]

\* the statements from the i-th on, until one throws; the k-th rejects
RECURSIVE Statements(_, _, _, _)
Statements(r, ops, i, k) ==
  IF i > Len(ops) \/ r.stepThrew # "none" THEN r
  ELSE Statements(Statement(r, ops[i], i = k), ops, i + 1, k)

\* the runner calls one step definition on the world
StepDefinition(w) ==
  /\ world[w].step = ""
  /\ \E def \in StepDefinitions :
       \E k \in 0..Len(def.ops) :
         Set(w, Statements([world[w] EXCEPT !.step = def.name, !.stepArg = def.arg],
                           def.ops, 1, k))
  /\ UNCHANGED <<env, config, disk, report>>

\* the worlds a step definition is called on: as constructed (init() not
\* run: no page, no page manager) and initialized (init() assigns page and
\* pageManager together); with and without credentials and authentication
\* start time
StepWorlds ==
  {[NewWorld EXCEPT !.page = pg[1], !.pageManager = pg[2],
                    !.browser = IF pg[1] = "open" THEN "open" ELSE "undef",
                    !.context = IF pg[1] = "open" THEN "open" ELSE "undef",
                    !.launchCalls = IF pg[1] = "open" THEN 1 ELSE 0,
                    !.launched = IF pg[1] = "open" THEN <<"chromium">> ELSE <<>>,
                    !.browserHandle = IF pg[1] = "open" THEN 1 ELSE 0,
                    !.contextHandle = IF pg[1] = "open" THEN 1 ELSE 0,
                    !.pageHandle = IF pg[1] = "open" THEN 1 ELSE 0,
                    !.authenticationAttempts = IF pg[2] THEN attempts ELSE -1,
                    !.credentials = cred, !.authenticationStartTime = start] :
     pg \in {<<"undef", FALSE>>, <<"open", TRUE>>},
     attempts \in {0, 2},
     cred \in {NoCredentials, EnvironmentCredentials("the-internet", "user")},
     start \in {0, 1}}

(***************************************************************************)
(* TestUtils.retryAction(action, maxAttempts, delay).  The error of        *)
(* attempt n is [kind |-> "action", n |-> n], the value it resolves with   *)
(* is n; events lists what happened in order; waited is the time spent in  *)
(* waitForTimeout.                                                         *)
(***************************************************************************)
MaxAttempts == 4
Delays == {0, 500, 1000}

Event(r, e) == [r EXCEPT !.events = Append(@, [e |-> e, n |-> r.attempt])]

\* for (let attempt = 1; attempt <= maxAttempts; attempt++): the loop test,
\* then action() is called, or throw lastError after the loop
RetryLoop(w) ==
  /\ world[w].retry.pc = "loop"
  /\ LET r == world[w].retry
     IN Set(w, [world[w] EXCEPT !.retry =
                  IF r.attempt <= r.maxAttempts
                    THEN Event([r EXCEPT !.pc = "action"], "called")
                    ELSE [r EXCEPT !.pc = "threw", !.thrown = r.lastError]])
  /\ UNCHANGED <<env, config, disk, report>>

\* mutant: the value of a successful attempt is kept and the loop goes on
ActionSettlesNoReturn(w) ==
  /\ world[w].retry.pc = "action"
  /\ \E ok \in BOOLEAN :
       LET r == world[w].retry
       IN Set(w, [world[w] EXCEPT !.retry =
                    IF ok THEN [Event(r, "resolved") EXCEPT !.value = r.attempt,
                                  !.attempt = @ + 1, !.pc = "loop"]
                    ELSE LET c == [Event(r, "rejected") EXCEPT
                                     !.lastError = [kind |-> "action", n |-> r.attempt]]
                         IN IF r.attempt < r.maxAttempts THEN [c EXCEPT !.pc = "wait"]
                            ELSE [c EXCEPT !.attempt = @ + 1, !.pc = "loop"]])
  /\ UNCHANGED <<env, config, disk, report>>

\* return await action(), or the catch block up to its if
ActionSettles(w) ==
  /\ world[w].retry.pc = "action"
  /\ \E ok \in BOOLEAN :
       LET r == world[w].retry
       IN Set(w, [world[w] EXCEPT !.retry =
                    IF ok THEN [Event(r, "resolved") EXCEPT !.value = r.attempt,
                                  !.pc = "returned"]
                    ELSE LET c == [Event(r, "rejected") EXCEPT
                                     !.lastError = [kind |-> "action", n |-> r.attempt]]
                         IN IF r.attempt < r.maxAttempts THEN [c EXCEPT !.pc = "wait"]
                            ELSE [c EXCEPT !.attempt = @ + 1, !.pc = "loop"]])
  /\ UNCHANGED <<env, config, disk, report>>

\* await this.page.waitForTimeout(delay) inside the catch block: it resolves
\* after the delay, or rejects (the page was closed) and the rejection leaves
\* retryAction
WaitForTimeout(w) ==
  /\ world[w].retry.pc = "wait"
  /\ \E ok \in BOOLEAN :
       LET r == world[w].retry
       IN Set(w, [world[w] EXCEPT !.retry =
                    IF ok THEN [Event(r, "waited") EXCEPT !.waited = @ + r.delay,
                                  !.attempt = @ + 1, !.pc = "loop"]
                    ELSE [r EXCEPT !.pc = "threw",
                                   !.thrown = [kind |-> "waitForTimeout", n |-> r.attempt]]])
  /\ UNCHANGED <<env, config, disk, report>>

(***************************************************************************)
(* The After hook and takeScreenshot().                                    *)
(***************************************************************************)
\* the After hook rejects
AfterThrows(r) == [r EXCEPT !.after = "threw", !.pc = "done"]

\* await this.cleanup(): the argument is omitted, so scenarioFailed = false
AfterCleanup(r, stamp) == CleanupBegin(r, FALSE, stamp)

AfterHook(w) ==
  /\ world[w].pc = "after"
  /\ \E stamp \in 1..MaxStamp :
       LET r == [world[w] EXCEPT !.after = "running"]
       IN Set(w, IF r.result = "FAILED" /\ ~CI(env)
                   THEN IF r.page = "undef" THEN AfterThrows(r)
                        ELSE IF ~config.screenshots THEN AfterCleanup(r, stamp)
                        ELSE [r EXCEPT !.pc = "screenshot"]
                   ELSE AfterCleanup(r, stamp))
  /\ UNCHANGED <<env, config, disk, report>>

\* await this.page.screenshot({ path, fullPage: true })
Screenshot(w) ==
  /\ world[w].pc = "screenshot"
  /\ \E ok \in BOOLEAN, stamp \in 1..MaxStamp :
       Set(w, IF ok THEN AfterCleanup([world[w] EXCEPT !.screenshot = "saved"], stamp)
                    ELSE AfterThrows([world[w] EXCEPT !.screenshot = "failed"]))
  /\ UNCHANGED <<env, config, disk, report>>

\* cleanup(scenarioFailed) called with either argument
CallCleanup(w) ==
  /\ world[w].pc = "after"
  /\ \E scenarioFailed \in BOOLEAN, stamp \in 1..MaxStamp :
       Set(w, CleanupBegin(world[w], scenarioFailed, stamp))
  /\ UNCHANGED <<env, config, disk, report>>


(***************************************************************************)
(* cleanup(): the awaited operations.                                      *)
(***************************************************************************)
\* context.tracing.stop({ path }) settles before the 3000 ms timer; it can
\* write the trace only if tracing was started
TracingStop(w) ==
  /\ world[w].pc = "tracingStop"
  /\ \E ok \in BOOLEAN, d \in Durations :
       LET r == [world[w] EXCEPT !.t = @ + d]
       IN /\ d <= TracingStopTimeout
          /\ ok => r.tracing = "stopping"
          /\ IF ok
               THEN /\ Set(w, VideoBlock([r EXCEPT !.tracing = "stopped"]))
                    /\ disk' = IF shouldKeep(r) THEN disk \cup {r.tracePath}
                                                ELSE disk \ {r.tracePath}
               ELSE /\ Set(w, ForceClose([r EXCEPT !.stopFailed = TRUE,
                                 !.tracing = IF @ = "stopping" THEN "stopped" ELSE @]))
                    /\ UNCHANGED <<disk, report>>
  /\ UNCHANGED <<env, config, report>>

\* mutant: the timeout is caught at the race and cleanup() goes on
TracingStopTimeoutSwallowed(w) ==
  /\ world[w].pc = "tracingStop"
  /\ \E d \in Durations : d >= TracingStopTimeout
  /\ Set(w, VideoBlock([world[w] EXCEPT !.t = @ + TracingStopTimeout,
                                        !.timedOut = "tracing"]))
  /\ UNCHANGED <<env, config, disk, report>>

\* the 3000 ms timer rejects first: the rejection lands in cleanup()'s catch,
\* tracing.stop() stays pending
TracingStopTimedOut(w) ==
  /\ world[w].pc = "tracingStop"
  /\ \E d \in Durations : d >= TracingStopTimeout
  /\ Set(w, ForceClose([world[w] EXCEPT !.t = @ + TracingStopTimeout,
                                        !.timedOut = "tracing"]))
  /\ UNCHANGED <<env, config, disk, report>>

\* a tracing.stop() that lost the race settles later
TracingStopLate(w) ==
  /\ world[w].pc # "tracingStop"
  /\ world[w].tracing = "stopping"
  /\ \E ok \in BOOLEAN :
       /\ ok => world[w].context = "open"
       /\ disk' = IF ok THEN disk \cup {world[w].tracePath} ELSE disk
  /\ Set(w, [world[w] EXCEPT !.tracing = "stopped"])
  /\ UNCHANGED <<env, config, report>>

\* videoPath = await this.page.video()?.path(), inside its own try/catch
VideoPathStep(w) ==
  /\ world[w].pc = "video"
  /\ \E ok \in BOOLEAN :
       LET r == world[w]
       IN /\ Set(w, AttachBlock(IF ok THEN [r EXCEPT !.videoPath = VideoPath(w)] ELSE r))
          /\ disk' = IF ok /\ ~shouldKeep(r) THEN disk \ {VideoPath(w)} ELSE disk
  /\ UNCHANGED <<env, config, report>>

\* the attach() calls of one artifact: n of them succeed, the next one throws
Attach(r, kind, path, n) ==
  [r EXCEPT !.attached = @ \o SubSeq(<<[kind |-> kind, as |-> "file", path |-> path],
                                       [kind |-> kind, as |-> "text", path |-> path]>>, 1, n),
            !.attachThrew = (n < 2)]

\* if (traces && tracePath && existsSync(tracePath)) { attach; attach }
AttachTrace(w) ==
  /\ world[w].pc = "attachTrace"
  /\ LET r == world[w]
     IN IF config.traces /\ r.tracePath # NoPath /\ r.tracePath \in disk
          THEN \E n \in 0..2 :
                 Set(w, IF n = 2 THEN [Attach(r, "trace", r.tracePath, n) EXCEPT !.pc = "attachVideo"]
                               ELSE CloseRace(Attach(r, "trace", r.tracePath, n)))
          ELSE Set(w, [r EXCEPT !.pc = "attachVideo"])
  /\ UNCHANGED <<env, config, disk, report>>

\* if (videos && videoPath && existsSync(videoPath)) { attach; attach }
AttachVideo(w) ==
  /\ world[w].pc = "attachVideo"
  /\ LET r == world[w]
     IN IF config.videos /\ r.videoPath # NoPath /\ r.videoPath \in disk
          THEN \E n \in 0..2 : Set(w, CloseRace(Attach(r, "video", r.videoPath, n)))
          ELSE Set(w, CloseRace(r))
  /\ UNCHANGED <<env, config, disk, report>>

\* time passes for cleanup() only while it awaits closeResources()
Awaited(r, d) == IF r.pc = "closing" THEN [r EXCEPT !.t = @ + d] ELSE r

\* when the cleanupTimeout timer of the pending race fires
Deadline(r) == r.raceStart + cleanupTimeout(env)

InTime(r, d) == r.pc = "closing" => r.t + d <= Deadline(r)

\* mutant: no try/catch around page.close(), closeResources() rejects and the
\* rejection lands in cleanup()'s catch
PageCloseUnguarded(w) ==
  /\ world[w].cr = "page"
  /\ \E ok \in BOOLEAN, d \in Durations :
       /\ InTime(world[w], d)
       /\ LET r == Awaited(world[w], d)
          IN Set(w, IF ok THEN Settle(CloseContext([r EXCEPT !.pageClose = "ok", !.page = "closed"]))
                    ELSE IF r.pc = "closing"
                           THEN ForceClose([r EXCEPT !.pageClose = "threw", !.cr = "done"])
                           ELSE [r EXCEPT !.pageClose = "threw", !.cr = "done"])
  /\ UNCHANGED <<env, config, disk, report>>

\* await this.page.close() settles (try/catch around it)
PageClose(w) ==
  /\ world[w].cr = "page"
  /\ \E ok \in BOOLEAN, d \in Durations :
       /\ InTime(world[w], d)
       /\ LET r == Awaited(world[w], d)
          IN Set(w, Settle(CloseContext(
                 IF ok THEN [r EXCEPT !.pageClose = "ok", !.page = "closed"]
                       ELSE [r EXCEPT !.pageClose = "threw"])))
  /\ UNCHANGED <<env, config, disk, report>>

\* await this.context.close() settles (try/catch around it)
ContextClose(w) ==
  /\ world[w].cr = "context"
  /\ \E ok \in BOOLEAN, d \in Durations :
       /\ InTime(world[w], d)
       /\ LET r == Awaited(world[w], d)
          IN Set(w, Settle(CloseBrowser(
                 IF ok THEN ContextClosed([r EXCEPT !.contextClose = "ok"])
                       ELSE [r EXCEPT !.contextClose = "threw"])))
  /\ UNCHANGED <<env, config, disk, report>>

\* await this.browser.close() settles (try/catch around it)
BrowserClose(w) ==
  /\ world[w].cr = "browser"
  /\ \E ok \in BOOLEAN, d \in Durations :
       /\ InTime(world[w], d)
       /\ LET r == Awaited(world[w], d)
          IN Set(w, Settle(
                 IF ok THEN BrowserClosed([r EXCEPT !.browserClose = "ok", !.cr = "done"])
                       ELSE [r EXCEPT !.browserClose = "threw", !.cr = "done"]))
  /\ UNCHANGED <<env, config, disk, report>>

\* mutant: the race is outside the try block, the timeout rejects cleanup()
CleanupTimedOutPropagates(w) ==
  /\ world[w].pc = "closing"
  /\ world[w].cr \in {"page", "context", "browser"}
  /\ \E d \in Durations : world[w].t + d >= Deadline(world[w])
  /\ Set(w, [world[w] EXCEPT !.t = Deadline(world[w]), !.timedOut = "cleanup",
                             !.cleanup = "threw", !.pc = "done",
                             !.after = IF @ = "running" THEN "threw" ELSE @])
  /\ UNCHANGED <<env, config, disk, report>>

\* the cleanupTimeout timer rejects while closeResources() is still running
CleanupTimedOut(w) ==
  /\ world[w].pc = "closing"
  /\ world[w].cr \in {"page", "context", "browser"}
  /\ \E d \in Durations : world[w].t + d >= Deadline(world[w])
  /\ Set(w, ForceClose([world[w] EXCEPT !.t = Deadline(world[w]), !.timedOut = "cleanup"]))
  /\ UNCHANGED <<env, config, disk, report>>

\* the catch block's await this.browser.close() settles (try/catch around it)
ForceCloseDone(w) ==
  /\ world[w].pc = "forceClose"
  /\ \E ok \in BOOLEAN, d \in Durations :
       LET r == [world[w] EXCEPT !.t = @ + d]
       IN Set(w, CleanupReturn(
              IF ok THEN BrowserClosed([r EXCEPT !.forceClose = "ok"])
                    ELSE [r EXCEPT !.forceClose = "threw"]))
  /\ UNCHANGED <<env, config, disk, report>>

(***************************************************************************)
(* Report scripts: parseTestResults, generateCucumberReport and main of    *)
(* playwright.config.ts, and scripts/convert-cucumber-to-junit.js.  They   *)
(* read the cucumber JSON report test-results/cucumber-report.json.        *)
(***************************************************************************)
\* features, scenarios over all features, and steps per scenario of a report
MaxFeatures == 2
MaxScenarios == 2
MaxSteps == 2

\* a step is its result.status; NoResult is a step without a result
NoResult == "<no result>"
StepStatuses == {"passed", "failed", "skipped", NoResult}
ElementTypes == {"scenario", "background"}

\* step.result.duration in nanoseconds: missing or 0, or 0.6 ms
StepDurations == {0, 600000}

\* hasSteps is FALSE for an element without a steps property; durations[i] is
\* steps[i].result.duration || 0
StepLists == UNION {[1..n -> StepStatuses] : n \in 0..MaxSteps}
DurationLists(steps, durations) ==
  {d \in [DOMAIN steps -> durations \cup {0}] :
     \A i \in DOMAIN steps : steps[i] = NoResult => d[i] = 0}
ElementsWith(durations) ==
  UNION {{[type |-> t, hasSteps |-> TRUE, steps |-> s, durations |-> d] :
            t \in ElementTypes, d \in DurationLists(s, durations)} : s \in StepLists}
    \cup {[type |-> t, hasSteps |-> FALSE, steps |-> <<>>, durations |-> <<>>] :
            t \in ElementTypes}
Elements == ElementsWith({0})

\* reports of one feature whose steps have durations
TimedReports ==
  {<<[hasElements |-> TRUE, elements |-> es]>> :
     es \in UNION {[1..k -> ElementsWith(StepDurations)] : k \in 0..MaxScenarios}}

\* the features with k elements; hasElements is FALSE for a feature without
\* an elements property
FeaturesWith(k) ==
  {[hasElements |-> TRUE, elements |-> es] : es \in [1..k -> Elements]}
    \cup (IF k = 0 THEN {[hasElements |-> FALSE, elements |-> <<>>]} ELSE {})

\* arrays of n features holding at most budget elements in total
RECURSIVE FeatureArrays(_, _)
FeatureArrays(n, budget) ==
  IF n = 0 THEN {<<>>}
  ELSE UNION {{<<f>> \o rest : f \in FeaturesWith(k),
                               rest \in FeatureArrays(n - 1, budget - k)} :
                k \in 0..budget}

CucumberReports == UNION {FeatureArrays(n, MaxScenarios) : n \in 0..MaxFeatures}

\* the results file: its directory may be missing, the file may be missing,
\* hold text that is not JSON, hold JSON that is not an array, or hold an
\* array of features
ReportFiles ==
  {[dir |-> FALSE, kind |-> "missing", data |-> <<>>]}
    \cup {[dir |-> TRUE, kind |-> k, data |-> <<>>] : k \in {"missing", "malformed", "notArray"}}
    \cup {[dir |-> TRUE, kind |-> "array", data |-> d] : d \in CucumberReports}

ZeroCounts == [total |-> 0, passed |-> 0, failed |-> 0, pending |-> 0]

\* mutant: a scenario passes when some step passed
scenarioStatusSome(steps) == \E i \in DOMAIN steps : steps[i] = "passed"

\* scenario.steps.every(step => step.result && step.result.status === 'passed')
scenarioStatus(steps) == \A i \in DOMAIN steps : steps[i] = "passed"

\* scenario.steps.some(step => step.result && step.result.status === 'failed')
hasFailed(steps) == \E i \in DOMAIN steps : steps[i] = "failed"

\* mutant: a scenario that passed is not counted as passed
CountScenarioPassedAsPending(c, scenario) ==
  IF ~scenario.hasSteps THEN c
  ELSE IF hasFailed(scenario.steps)
         THEN [c EXCEPT !.total = @ + 1, !.failed = @ + 1]
         ELSE [c EXCEPT !.total = @ + 1, !.pending = @ + 1]

\* mutant: total is incremented before scenario.steps is tested
CountScenarioTotalFirst(c, scenario) ==
  IF ~scenario.hasSteps THEN [c EXCEPT !.total = @ + 1]
  ELSE IF scenarioStatus(scenario.steps)
         THEN [c EXCEPT !.total = @ + 1, !.passed = @ + 1]
         ELSE IF hasFailed(scenario.steps)
                THEN [c EXCEPT !.total = @ + 1, !.failed = @ + 1]
                ELSE [c EXCEPT !.total = @ + 1, !.pending = @ + 1]

\* the body of feature.elements.forEach in parseTestResults
CountScenario(c, scenario) ==
  IF ~scenario.hasSteps THEN c
  ELSE IF scenarioStatus(scenario.steps)
         THEN [c EXCEPT !.total = @ + 1, !.passed = @ + 1]
         ELSE IF hasFailed(scenario.steps)
                THEN [c EXCEPT !.total = @ + 1, !.failed = @ + 1]
                ELSE [c EXCEPT !.total = @ + 1, !.pending = @ + 1]

RECURSIVE CountElements(_, _, _)
CountElements(c, elements, i) ==
  IF i > Len(elements) THEN c
  ELSE CountElements(CountScenario(c, elements[i]), elements, i + 1)

\* the body of results.forEach in parseTestResults
CountFeature(c, feature) ==
  IF ~feature.hasElements THEN c ELSE CountElements(c, feature.elements, 1)

RECURSIVE CountFeatures(_, _, _)
CountFeatures(c, features, i) ==
  IF i > Len(features) THEN c
  ELSE CountFeatures(CountFeature(c, features[i]), features, i + 1)

\* existsSync false: zero counts; JSON.parse throws: caught, zero counts;
\* not an array: the counters as initialized; else the counters after forEach
parseTestResults(file) ==
  IF file.kind = "array" THEN CountFeatures(ZeroCounts, file.data, 1) ELSE ZeroCounts

\* (step.result.duration || 0) / 1000000000
NanosPerSecond == 1000000000

\* scenarioTime after steps.forEach, in nanoseconds: steps without a result
\* add nothing
RECURSIVE scenarioTime(_, _, _)
scenarioTime(steps, durations, i) ==
  IF i > Len(steps) THEN 0
  ELSE (IF steps[i] # NoResult THEN durations[i] ELSE 0)
         + scenarioTime(steps, durations, i + 1)

\* Number.prototype.toFixed(3) of a time held in nanoseconds: the seconds
\* rounded to thousandths, as a number of thousandths
toFixed3(nanos) == (nanos * 1000 + NanosPerSecond \div 2) \div NanosPerSecond

\* the <testsuite> element generateJunitXml appends for a scenario
Testsuite(failed, time) ==
  [tests |-> 1, failures |-> IF failed THEN 1 ELSE 0, time |-> toFixed3(time),
   testcases |-> <<[time |-> toFixed3(time),
                    failures |-> IF failed THEN <<"Scenario failed">> ELSE <<>>]>>]

\* mutant: every element is converted, whatever its type
JunitScenarioAnyType(j, scenario) ==
  LET steps == IF scenario.hasSteps THEN scenario.steps ELSE <<>>
      time == scenarioTime(steps, scenario.durations, 1)
  IN [j EXCEPT !.tests = @ + 1,
               !.failures = IF hasFailed(steps) THEN @ + 1 ELSE @,
               !.time = @ + time,
               !.suites = Append(@, Testsuite(hasFailed(steps), time))]

\* generateJunitXml, the body of elements.forEach: totalTests, totalFailures
\* and totalTime of the summary line, and the XML appended
JunitScenario(j, scenario) ==
  IF scenario.type # "scenario" THEN j
  ELSE LET steps == IF scenario.hasSteps THEN scenario.steps ELSE <<>>
           time == scenarioTime(steps, scenario.durations, 1)
       IN [j EXCEPT !.tests = @ + 1,
                    !.failures = IF hasFailed(steps) THEN @ + 1 ELSE @,
                    !.time = @ + time,
                    !.suites = Append(@, Testsuite(hasFailed(steps), time))]

RECURSIVE JunitElements(_, _, _)
JunitElements(j, elements, i) ==
  IF i > Len(elements) THEN j
  ELSE JunitElements(JunitScenario(j, elements[i]), elements, i + 1)

JunitFeature(j, feature) ==
  JunitElements(j, IF feature.hasElements THEN feature.elements ELSE <<>>, 1)

RECURSIVE JunitFeatures(_, _, _)
JunitFeatures(j, features, i) ==
  IF i > Len(features) THEN j
  ELSE JunitFeatures(JunitFeature(j, features[i]), features, i + 1)

generateJunitXml(cucumberData) ==
  JunitFeatures([outcome |-> "written", tests |-> 0, failures |-> 0, time |-> 0,
                 suites |-> <<>>], cucumberData, 1)

Exit1 == [outcome |-> "exit1", tests |-> 0, failures |-> 0, time |-> 0, suites |-> <<>>]
NotRun == [outcome |-> "none", tests |-> 0, failures |-> 0, time |-> 0, suites |-> <<>>]

\* mutant: the converter writes an empty test suite when it cannot read its input
convertCucumberToJunitDegrades(file) ==
  IF file.kind = "array" THEN generateJunitXml(file.data)
  ELSE [outcome |-> "written", tests |-> 0, failures |-> 0, time |-> 0, suites |-> <<>>]

\* readFileSync or JSON.parse throws on a missing or malformed file, forEach
\* is not a function on a value that is not an array: the catch block logs
\* and calls process.exit(1)
convertCucumberToJunit(file) ==
  IF file.kind = "array" THEN generateJunitXml(file.data) ELSE Exit1

\* generateCucumberReport: readdirSync throws when the directory is missing;
\* without a JSON file it warns and returns; generate() of the HTML reporter
\* reads the file itself and its error is rethrown
generateCucumberReport(file, generateThrows) ==
  IF ~file.dir THEN "threw"
  ELSE IF file.kind = "missing" THEN "returned"
  ELSE IF generateThrows THEN "threw" ELSE "returned"

\* the state of the report scripts: the file they read, whether
\* parseTestResults has returned and its value, the converter's outcome,
\* main's outcome and the counts createSummaryReport put in the summary page
NewReport(file) ==
  [file |-> file, parsed |-> FALSE, results |-> ZeroCounts, junit |-> NotRun,
   main |-> "none", summary |-> ZeroCounts]

NoReport == NewReport([dir |-> FALSE, kind |-> "missing", data |-> <<>>])

ParseTestResults ==
  /\ ~report.parsed
  /\ report' = [report EXCEPT !.parsed = TRUE,
                               !.results = parseTestResults(report.file)]
  /\ UNCHANGED <<env, config, world, disk>>

ConvertCucumberToJunit ==
  /\ report.junit.outcome = "none"
  /\ report' = [report EXCEPT !.junit = convertCucumberToJunit(report.file)]
  /\ UNCHANGED <<env, config, world, disk>>

\* main(): generateCucumberReport, then createSummaryReport; an exception
\* reaches main's catch block, which calls process.exit(1).  Whether the
\* HTML reporter's generate() throws on a file that is not a cucumber report
\* is the reporter's choice.
Main ==
  /\ report.main = "none"
  /\ \E generateThrows \in BOOLEAN :
       /\ generateThrows => report.file.kind \in {"malformed", "notArray"}
       /\ IF generateCucumberReport(report.file, generateThrows) = "threw"
            THEN report' = [report EXCEPT !.main = "exit1"]
            ELSE report' = [report EXCEPT !.main = "completed",
                                          !.summary = parseTestResults(report.file)]
  /\ UNCHANGED <<env, config, world, disk>>

(***************************************************************************)
(* Specifications.                                                         *)
(***************************************************************************)
\* the worlds the runner has constructed, one per worker; the constructor has
\* resolved the artifact configuration
InitWith(envs, workers) ==
  /\ env \in envs
  /\ config = Resolved(getTestArtifactConfig(env))
  /\ world = [w \in 1..workers |-> NewWorld]
  /\ disk = {}
  /\ report = NoReport

Init == InitWith(LifecycleEnvs, 1)

\* init() on the world of worker w
InitWorld ==
  \/ \E w \in DOMAIN world : BeforeHook(w)
  \/ \E w \in DOMAIN world : Launch(w)
  \/ \E w \in DOMAIN world : NewContext(w)
  \/ \E w \in DOMAIN world : TracingStart(w)
  \/ \E w \in DOMAIN world : NewPage(w)

\* the operations cleanup() and closeResources() await
Cleanup ==
  \/ \E w \in DOMAIN world : TracingStop(w)
  \/ \E w \in DOMAIN world : TracingStopTimedOut(w)
  \/ \E w \in DOMAIN world : TracingStopLate(w)
  \/ \E w \in DOMAIN world : VideoPathStep(w)
  \/ \E w \in DOMAIN world : PageClose(w)
  \/ \E w \in DOMAIN world : ContextClose(w)
  \/ \E w \in DOMAIN world : BrowserClose(w)
  \/ \E w \in DOMAIN world : CleanupTimedOut(w)
  \/ \E w \in DOMAIN world : ForceCloseDone(w)

\* the attach block of cleanup(true)
Attachments ==
  \/ \E w \in DOMAIN world : AttachTrace(w)
  \/ \E w \in DOMAIN world : AttachVideo(w)

\* the runner: Before hook, steps, After hook, on every worker.  The After hook
\* calls cleanup() with scenarioFailed = false, which never enters the attach
\* block (AttachBlock), so the attachments are no step of the runner.
Next ==
  \/ InitWorld
  \/ \E w \in DOMAIN world : RunSteps(w)
  \/ \E w \in DOMAIN world : AfterHook(w)
  \/ \E w \in DOMAIN world : Screenshot(w)
  \/ Cleanup

Spec == Init /\ [][Next]_vars

\* the runner with parallel workers (cucumber's parallel option)
InitParallel == InitWith(ParallelEnvs, NumWorlds)

SpecParallel == InitParallel /\ [][Next]_vars

\* init() on a world constructed with any browser parameter
InitBrowsers ==
  /\ env \in LifecycleEnvs
  /\ config = Resolved(getTestArtifactConfig(env))
  /\ \E parameter \in BrowserParameters :
       world = [w \in 1..1 |-> [NewWorld EXCEPT !.browserName = ConfigBrowser(parameter)]]
  /\ disk = {}
  /\ report = NoReport

SpecBrowsers == InitBrowsers /\ [][InitWorld]_vars

\* retryAction called on the page of an initialized world, with any number
\* of attempts and any delay
InitRetry ==
  /\ env = AllUnset
  /\ config = Resolved(getTestArtifactConfig(env))
  /\ \E maxAttempts \in -1..MaxAttempts, delay \in Delays :
       world = [w \in 1..1 |->
                 [NewWorld EXCEPT !.page = "open", !.pageManager = TRUE,
                    !.browser = "open", !.context = "open", !.initCalls = 1,
                    !.launchCalls = 1, !.launched = <<"chromium">>,
                    !.browserHandle = 1, !.contextHandle = 1, !.pageHandle = 1,
                    !.authenticationAttempts = 0, !.pc = "steps",
                    !.retry.pc = "loop", !.retry.attempt = 1,
                    !.retry.maxAttempts = maxAttempts, !.retry.delay = delay]]
  /\ disk = {}
  /\ report = NoReport

NextRetry ==
  \/ \E w \in DOMAIN world : RetryLoop(w)
  \/ \E w \in DOMAIN world : ActionSettles(w)
  \/ \E w \in DOMAIN world : WaitForTimeout(w)

SpecRetry == InitRetry /\ [][NextRetry]_vars

\* cleanup(scenarioFailed) called on a world after init(), with either argument
NextCleanup ==
  \/ InitWorld
  \/ \E w \in DOMAIN world : RunSteps(w)
  \/ \E w \in DOMAIN world : CallCleanup(w)
  \/ Cleanup
  \/ Attachments

SpecCleanup == Init /\ [][NextCleanup]_vars

\* the configuration resolver on every environment
InitConfig ==
  /\ env \in ConfigEnvs
  /\ config = Unresolved
  /\ world = [w \in 1..1 |-> NewWorld]
  /\ disk = {}
  /\ report = NoReport

ResolveConfig ==
  /\ ~config.resolved
  /\ config' = Resolved(getTestArtifactConfig(env))
  /\ UNCHANGED <<env, world, disk, report>>

SpecConfig == InitConfig /\ [][ResolveConfig]_vars

\* getTestArtifactConfig() on environments without any effective setting
InitDefaults ==
  /\ env \in DefaultEnvs
  /\ config = Unresolved
  /\ world = [w \in 1..1 |-> NewWorld]
  /\ disk = {}
  /\ report = NoReport

SpecDefaults == InitDefaults /\ [][ResolveConfig]_vars

\* the report scripts on every results file within the bounds
InitReports ==
  /\ env = AllUnset
  /\ config = Resolved(getTestArtifactConfig(env))
  /\ world = [w \in 1..1 |-> NewWorld]
  /\ disk = {}
  /\ report \in {NewReport(f) : f \in ReportFiles}

NextReports == ParseTestResults \/ ConvertCucumberToJunit \/ Main

\* the converter run on a report whose steps have durations
InitJunit ==
  /\ env = AllUnset
  /\ config = Resolved(getTestArtifactConfig(env))
  /\ world = [w \in 1..1 |-> NewWorld]
  /\ disk = {}
  /\ report \in {NewReport([dir |-> TRUE, kind |-> "array", data |-> d]) : d \in TimedReports}

SpecJunit == InitJunit /\ [][ConvertCucumberToJunit]_vars

SpecReports == InitReports /\ [][NextReports]_vars

\* one step definition called on each of the worlds of StepWorlds
InitSteps ==
  /\ env = AllUnset
  /\ config = Resolved(getTestArtifactConfig(env))
  /\ world \in {[w \in 1..1 |-> r] : r \in StepWorlds}
  /\ disk = {}
  /\ report = NoReport

NextSteps == \E w \in DOMAIN world : StepDefinition(w)

SpecSteps == InitSteps /\ [][NextSteps]_vars


(***************************************************************************)
(* Properties.                                                             *)
(***************************************************************************)
\* the After hook of this world has ended, by returning or by rejecting
AfterEnded(r) == r.pc = "done" /\ r.after \in {"returned", "threw"}

\* the scenario's keep condition: it failed, or ARTIFACTS_ON_SUCCESS=true
Retained(r) == r.result = "FAILED" \/ ~config.onlyOnFailure

\* C1: after a full scenario run (Before hook, steps, After hook) in which no
\* cleanup operation failed or timed out, the scenario's trace file and video
\* file are on disk if and only if the scenario failed or keep-on-success is set.
C1_ArtifactsRetainedIffFailedOrKept ==
  \A w \in DOMAIN world :
    LET r == world[w]
    IN (r.after = "returned" /\ r.pageManager /\ r.timedOut = "none" /\ ~r.stopFailed)
         => /\ (config.traces /\ r.tracing = "stopped")
                 => (r.tracePath \in disk <=> Retained(r))
            /\ (config.videos /\ r.videoPath # NoPath)
                 => (r.videoPath \in disk <=> Retained(r))

\* C2: when the After hook has ended, whatever the scenario's outcome and
\* whether or not the screenshot step threw, cleanup() has been called.
C2_AfterAlwaysCallsCleanup ==
  \A w \in DOMAIN world : AfterEnded(world[w]) => world[w].cleanupCalls = 1

\* C3: on every worker, when the scenario's After hook has ended, init() has
\* run exactly once and the browser it launched has been closed (a
\* browser.close() that was attempted and failed is counted as closing it).
C3_NoBrowserOutlivesScenario ==
  \A w \in DOMAIN world :
    LET r == world[w]
    IN AfterEnded(r)
         => /\ r.initCalls = 1
            /\ r.browser # "undef"
                 => (r.browser = "closed" \/ r.nBrowserClose + r.nForceClose > 0)

Finished(status) == status \in {"ok", "threw"}

\* C4 as claimed: in every execution of cleanup(), context.close() is not
\* started before the page close attempt has finished, and no browser.close()
\* is started before the context close attempt has finished.
C4_CloseOrderInCleanup ==
  \A w \in DOMAIN world :
    LET r == world[w]
    IN /\ r.nContextClose > 0 => (r.page # "undef" => Finished(r.pageClose))
       /\ r.nBrowserClose + r.nForceClose > 0
            => (r.context # "undef" => Finished(r.contextClose))

\* C4 as amended: the closes closeResources() makes are ordered page, context,
\* browser, each started only after the previous attempt has finished; the
\* browser.close() of cleanup()'s catch block is made only after a tracing
\* stop failure or timeout or the cleanup timeout, and does not wait for them.
C4_CloseOrderInCloseResources ==
  \A w \in DOMAIN world :
    LET r == world[w]
    IN /\ r.nContextClose > 0 => (r.page # "undef" => Finished(r.pageClose))
       /\ r.nBrowserClose > 0
            => /\ r.page # "undef" => Finished(r.pageClose)
               /\ r.context # "undef" => Finished(r.contextClose)
       /\ r.nForceClose > 0 => (r.stopFailed \/ r.timedOut # "none")

\* the cleanup timeout fired while page.close() was pending: the catch block's
\* browser.close() ran, and closeResources() went on to close context and
\* browser in order
C4_Witness ==
  \E w \in DOMAIN world :
    LET r == world[w]
    IN /\ r.timedOut = "cleanup" /\ r.forceClose = "ok"
       /\ r.pageClose = "threw" /\ r.contextClose = "threw" /\ r.browserClose = "ok"

\* C5: in closeResources() every close whose handle is present is attempted
\* exactly once whatever the outcome of the closes before it, and a throwing
\* close does not make closeResources() reject into cleanup()'s catch block.
C5_EachCloseGuarded ==
  \A w \in DOMAIN world :
    LET r == world[w]
    IN /\ r.nPageClose <= 1 /\ r.nContextClose <= 1 /\ r.nBrowserClose <= 1
       /\ (Finished(r.pageClose) /\ r.context # "undef") => r.nContextClose = 1
       /\ (Finished(r.contextClose) /\ r.browser # "undef") => r.nBrowserClose = 1
       /\ r.cr = "done"
            => /\ r.page # "undef" => (r.nPageClose = 1 /\ Finished(r.pageClose))
               /\ r.context # "undef" => (r.nContextClose = 1 /\ Finished(r.contextClose))
               /\ r.browser # "undef" => (r.nBrowserClose = 1 /\ Finished(r.browserClose))
       /\ (r.timedOut = "none" /\ ~r.stopFailed) => r.nForceClose = 0

\* all three closes threw and closeResources() still finished
C5_Witness ==
  \E w \in DOMAIN world :
    LET r == world[w]
    IN /\ r.cr = "done" /\ r.cleanup = "returned" /\ r.timedOut = "none"
       /\ r.pageClose = "threw" /\ r.contextClose = "threw" /\ r.browserClose = "threw"

C8_AttachOnlyOnFailure ==
  /\ [](\A w \in DOMAIN world :
          LET r == world[w]
          IN /\ r.attached # <<>> => r.scenarioFailed
             /\ \A i \in DOMAIN r.attached :
                  /\ r.attached[i].kind = "trace"
                       => (config.traces /\ r.attached[i].path = r.tracePath)
                  /\ r.attached[i].kind = "video"
                       => (config.videos /\ r.attached[i].path = r.videoPath)
             /\ r.attachThrew => (r.cr # "idle" /\ r.pc \notin {"attachTrace", "attachVideo"}))
  /\ [][\A w \in DOMAIN world :
          \A i \in (Len(world[w].attached) + 1)..Len(world'[w].attached) :
            world'[w].attached[i].path \in disk]_vars

\* the trace was attached, the attach() of the video threw, and the close
\* sequence still closed the browser
C8_Witness ==
  \E w \in DOMAIN world :
    LET r == world[w]
    IN /\ r.scenarioFailed /\ r.attachThrew /\ Len(r.attached) = 3
       /\ r.browserClose = "ok" /\ r.cleanup = "returned"

\* C9: with NO_ARTIFACTS=true the resolved configuration has screenshots,
\* videos and traces disabled, whatever the other variables are.
C9_NoArtifactsDisablesAll ==
  (config.resolved /\ env["NO_ARTIFACTS"] = "true")
    => (~config.screenshots /\ ~config.videos /\ ~config.traces)

\* NO_ARTIFACTS=true together with every FORCE_ variable set
C9_Witness ==
  /\ config.resolved /\ env["NO_ARTIFACTS"] = "true"
  /\ env["FORCE_SCREENSHOTS"] = "true" /\ env["FORCE_VIDEOS"] = "true"
  /\ env["FORCE_TRACES"] = "true" /\ env["ARTIFACTS_ON_SUCCESS"] = "true"

TypeDisabled(e, type) == e[type] = "false" \/ e["NO_" \o type] = "true"

C11_DisableBeatsForce ==
  config.resolved =>
    /\ config.screenshots = (env["NO_ARTIFACTS"] # "true" /\ ~TypeDisabled(env, "SCREENSHOTS"))
    /\ config.videos = (env["NO_ARTIFACTS"] # "true" /\ ~TypeDisabled(env, "VIDEOS"))
    /\ config.traces = (env["NO_ARTIFACTS"] # "true" /\ ~TypeDisabled(env, "TRACES"))
    /\ config.onlyOnFailure = (env["ARTIFACTS_ON_SUCCESS"] # "true")

\* C12: with every variable unset or set to a value the resolver does not act
\* on, getTestArtifactConfig() returns screenshots, videos and traces enabled
\* and onlyOnFailure true.
C12_DefaultsForUnsetOrUnrecognized ==
  config.resolved =>
    (config.screenshots /\ config.videos /\ config.traces /\ config.onlyOnFailure)

\* resolved with unrecognized strings in the disabling variables, and the
\* listed but ineffective strings in others
C12_Witness ==
  /\ config.resolved
  /\ env["VIDEOS"] = Unrecognized /\ env["NO_TRACES"] = Unrecognized
  /\ env["NO_ARTIFACTS"] = Unrecognized /\ env["ARTIFACTS_ON_SUCCESS"] = Unrecognized
  /\ env["SCREENSHOTS"] = "true" /\ env["NO_VIDEOS"] = "false"
  /\ env["FORCE_TRACES"] = "false" /\ env["TRACES"] = Unset
  /\ config.videos /\ config.traces /\ config.screenshots /\ config.onlyOnFailure

\* the elements of the parsed file, as <<feature index, element index>>
ElementsOf(file) ==
  {<<f, i>> \in (1..Len(file.data)) \X (1..MaxScenarios) :
     file.data[f].hasElements /\ i <= Len(file.data[f].elements)}

ElementAt(file, pos) == file.data[pos[1]].elements[pos[2]]

\* the elements that have a steps array
WithSteps(file) == {pos \in ElementsOf(file) : ElementAt(file, pos).hasSteps}

AllStepsPassed(file) ==
  {pos \in WithSteps(file) :
     \A i \in DOMAIN ElementAt(file, pos).steps : ElementAt(file, pos).steps[i] = "passed"}

SomeStepFailed(file) ==
  {pos \in WithSteps(file) :
     \E i \in DOMAIN ElementAt(file, pos).steps : ElementAt(file, pos).steps[i] = "failed"}

\* C13: when the results file is an array of features whose elements are all
\* scenarios with a steps array in which every step has status 'passed', then
\* parseTestResults() returns passed = total = the number N of scenarios, and
\* failed = pending = 0.
C13_AllPassedCounts ==
  (/\ report.parsed /\ report.file.kind = "array"
   /\ \A pos \in ElementsOf(report.file) :
        /\ ElementAt(report.file, pos).type = "scenario"
        /\ pos \in AllStepsPassed(report.file))
    => report.results = [total |-> Cardinality(ElementsOf(report.file)),
                         passed |-> Cardinality(ElementsOf(report.file)),
                         failed |-> 0, pending |-> 0]

\* two features with one scenario each, both of two passed steps, counted
C13_Witness ==
  /\ report.parsed /\ report.file.kind = "array"
  /\ Len(report.file.data) = 2
  /\ Cardinality(ElementsOf(report.file)) = 2
  /\ \A pos \in ElementsOf(report.file) :
       /\ ElementAt(report.file, pos).type = "scenario"
       /\ ElementAt(report.file, pos).steps = <<"passed", "passed">>
  /\ report.results.passed = 2

\* C14: every scenario with at least one step of status 'failed' is counted by
\* parseTestResults() as failed and not as passed, whatever its other steps
\* are: the failed count is the number of such scenarios, and they are not
\* among the passed ones.
C14_FailedStepCountsAsFailed ==
  (report.parsed /\ report.file.kind = "array")
    => /\ report.results.failed = Cardinality(SomeStepFailed(report.file))
       /\ report.results.passed <=
            Cardinality(WithSteps(report.file) \ SomeStepFailed(report.file))
       /\ \A pos \in SomeStepFailed(report.file) :
            CountScenario(ZeroCounts, ElementAt(report.file, pos)) =
              [total |-> 1, passed |-> 0, failed |-> 1, pending |-> 0]

\* a scenario with a passed and a failed step, and one with a failed step and
\* a step without a result, both counted as failed
C14_Witness ==
  /\ report.parsed /\ report.file.kind = "array"
  /\ \E p, q \in ElementsOf(report.file) :
       /\ ElementAt(report.file, p).steps = <<"passed", "failed">>
       /\ ElementAt(report.file, q).steps = <<"failed", NoResult>>
  /\ report.results.failed = 2 /\ report.results.passed = 0

\* C15: for every results file, the counts parseTestResults() returns are
\* non-negative and passed + failed + pending = total: each counted scenario
\* is passed (all steps 'passed'), else failed (some step 'failed'), else
\* pending.
C15_CountsPartitionTotal ==
  report.parsed =>
    LET r == report.results
    IN /\ r.passed + r.failed + r.pending = r.total
       /\ r.total >= 0 /\ r.passed >= 0 /\ r.failed >= 0 /\ r.pending >= 0
       /\ report.file.kind = "array" =>
            /\ r.total = Cardinality(WithSteps(report.file))
            /\ r.passed = Cardinality(AllStepsPassed(report.file))
            /\ r.failed = Cardinality(SomeStepFailed(report.file))
            /\ r.pending = Cardinality(WithSteps(report.file)
                              \ (AllStepsPassed(report.file) \cup SomeStepFailed(report.file)))

\* an element without steps next to a pending scenario: one counted, one not
C15_Witness ==
  /\ report.parsed /\ report.file.kind = "array"
  /\ Cardinality(ElementsOf(report.file)) = 2
  /\ Cardinality(WithSteps(report.file)) = 1
  /\ report.results = [total |-> 1, passed |-> 0, failed |-> 0, pending |-> 1]

StepOf(r) == CHOOSE d \in StepDefinitions : d.name = r.step /\ d.arg = r.stepArg

\* the world fields among page, pageManager and credentials that the
\* statements of a step read without having assigned them before
Needs(ops) ==
  {f \in {"page", "pageManager", "credentials"} :
     \E i \in DOMAIN ops :
       f \in ops[i].fields /\ \A j \in 1..(i - 1) : ops[j].field # f}

\* C17: when a step definition is called on a world in which page,
\* pageManager or credentials is needed by the step and not initialized, the
\* step throws its guard's error, makes no Page Object call, and leaves
\* authenticationAttempts, lastError, authenticationStartTime and credentials
\* unchanged.
C17_GuardsBeforeEffects ==
  [][\A w \in DOMAIN world :
       (world[w].step = "" /\ world'[w].step # ""
          /\ \E f \in Needs(StepOf(world'[w]).ops) : ~Defined(world[w], f))
         => /\ world'[w].stepThrew = "guard"
            /\ world'[w].pomCalls = world[w].pomCalls
            /\ world'[w].authenticationAttempts = world[w].authenticationAttempts
            /\ world'[w].lastError = world[w].lastError
            /\ world'[w].authenticationStartTime = world[w].authenticationStartTime
            /\ world'[w].credentials = world[w].credentials]_vars

\* 'I attempt to authenticate' on an initialized world without credentials:
\* the guard threw, login was not called, lastError and the attempts are as
\* the Before hook left them
C17_Witness ==
  \E w \in DOMAIN world :
    LET r == world[w]
    IN /\ r.step = "I attempt to authenticate"
       /\ r.page = "open" /\ r.pageManager /\ r.credentials = NoCredentials
       /\ r.stepThrew = "guard" /\ r.pomCalls = 0
       /\ ~r.lastError /\ r.authenticationAttempts = 0

\* C18: when the browser launch of init() fails, the launch is not tried
\* again, init() rejects (the Before hook fails and init() goes no further),
\* and browser, context, page and pageManager stay undefined.
C18_LaunchFailurePropagates ==
  \A w \in DOMAIN world :
    LET r == world[w]
    IN (r.launchCalls > 0 /\ r.browser = "undef")
         => /\ r.launchCalls = 1 /\ r.initCalls = 1
            /\ r.result = "FAILED"
            /\ r.pc \notin {"launch", "newContext", "tracingStart", "newPage", "steps"}
            /\ r.context = "undef" /\ r.page = "undef" /\ ~r.pageManager
            /\ r.browserHandle = 0 /\ r.contextHandle = 0 /\ r.pageHandle = 0

\* the launch failed and the After hook has since returned on the world
C18_Witness ==
  \E w \in DOMAIN world :
    LET r == world[w]
    IN /\ r.launchCalls = 1 /\ r.browser = "undef"
       /\ r.after = "returned" /\ r.cleanupCalls = 1

\* the steps that assign credentials from getCredentials(intent) alone
CredentialSteps == {"I have valid user credentials", "I have {string} credentials"}

\* C19: getCredentials(intent) returns the 'user' credentials of an existing
\* environment and does not throw for each of the intents 'valid', 'invalid',
\* 'demo' and 'staging'; and after the step 'I have {string} credentials' (or
\* 'I have valid user credentials') the step has not thrown and
\* world.credentials is set, whatever the credential type.
C19_CredentialLookupYieldsPair ==
  \A w \in DOMAIN world :
    world[w].step \in CredentialSteps
      => /\ world[w].stepThrew = "none"
         /\ world[w].credentials # NoCredentials
         /\ \A intent \in Intents :
              LET c == getCredentials(intent, "the-internet")
              IN /\ ~c.threw
                 /\ c.env \in EnvironmentNames
                 /\ c.credentials = EnvironmentCredentials(c.env, "user")

\* C20: with scenarios on parallel workers, every browser, context and page
\* handle a world holds was created by that world's own init(), which
\* launched one browser; no handle is held by two worlds; and every handle a
\* world's cleanup() has called close() on was created by that world.
C20_NoSharedHandles ==
  \A w \in DOMAIN world :
    LET r == world[w]
    IN /\ r.browserHandle \in {0, w} /\ r.contextHandle \in {0, w}
       /\ r.pageHandle \in {0, w}
       /\ r.browser # "undef" => (r.browserHandle = w /\ r.launchCalls = 1)
       /\ \A v \in DOMAIN world \ {w} :
            /\ r.browserHandle # 0 => world[v].browserHandle # r.browserHandle
            /\ r.contextHandle # 0 => world[v].contextHandle # r.contextHandle
            /\ r.pageHandle # 0 => world[v].pageHandle # r.pageHandle
       /\ \A h \in r.closed : h[2] = w

\* one world has closed its page, context and browser while another world's
\* page is still open
C20_Witness ==
  \E w, v \in DOMAIN world :
    /\ w # v
    /\ world[w].closed = {<<"page", w>>, <<"context", w>>, <<"browser", w>>}
    /\ world[w].browser = "closed"
    /\ world[v].page = "open" /\ world[v].browser = "open" /\ world[v].pc = "steps"

(***************************************************************************)
(* C21: init() selects the browser by name, case-insensitively: firefox    *)
(* launches Firefox, webkit or safari launches WebKit, chromium, chrome or *)
(* any other name launches Chromium; init() calls launch() exactly once.   *)
(***************************************************************************)
\* a and b are the same name up to the case of their letters
SameIgnoringCase(a, b) ==
  /\ Len(a) = Len(b)
  /\ \A i \in 1..Len(a) :
       \/ a[i] = b[i]
       \/ \E k \in DOMAIN Capitals :
            {a[i], b[i]} = {Capitals[k], Alphabet[k]}

Selected(name) ==
  IF SameIgnoringCase(name, Firefox) THEN "firefox"
  ELSE IF SameIgnoringCase(name, Webkit) \/ SameIgnoringCase(name, Safari) THEN "webkit"
  ELSE "chromium"

C21_BrowserSelectedByName ==
  \A w \in DOMAIN world :
    LET r == world[w]
    IN /\ Len(r.launched) = r.launchCalls
       /\ r.launchCalls <= r.initCalls
       /\ r.pc \notin {"ready", "launch"} =>
            /\ r.initCalls = 1
            /\ r.launched = <<Selected(r.browserName)>>

C21_Witness ==
  \E w \in DOMAIN world :
    /\ world[w].browserName = <<"S", "a", "f", "a", "r", "i">>
    /\ world[w].launched = <<"webkit">>
    /\ world[w].page = "open"

(***************************************************************************)
(* C22: once cleanup(scenarioFailed) has returned and the writer of an     *)
(* enabled artifact type has finished, the world's trace file, and         *)
(* likewise its video file, is on disk if and only if scenarioFailed is    *)
(* true or onlyOnFailure is false, also when tracing.stop() completes only *)
(* after its 3000 ms timeout.  A file is expected on disk only where its   *)
(* writer did not fail: tracing.stop() resolved within the race, and       *)
(* page.video().path() resolved.                                           *)
(***************************************************************************)
StopResolvedInRace(r) == r.timedOut # "tracing" /\ ~r.stopFailed

C22_FilesFollowKeepPolicy ==
  \A w \in DOMAIN world :
    LET r == world[w]
    IN r.cleanup = "returned"
         => /\ (config.traces /\ r.tracePath # NoPath /\ r.tracing = "stopped")
                 => /\ ~shouldKeep(r) => r.tracePath \notin disk
                    /\ (shouldKeep(r) /\ StopResolvedInRace(r)) => r.tracePath \in disk
            /\ (config.videos /\ r.videoPath # NoPath)
                 => (r.videoPath \in disk <=> shouldKeep(r))

(***************************************************************************)
(* C23: generateJunitXml emits exactly one testsuite with exactly one      *)
(* testcase for every element of type 'scenario' and none for other        *)
(* elements; the testcase carries a failure element if and only if a step  *)
(* of the scenario has result status 'failed'; the failure total is the    *)
(* number of such scenarios and never exceeds the test total; a scenario's *)
(* time is the sum of its step durations converted from nanoseconds to     *)
(* seconds (printed with three decimals).                                  *)
(***************************************************************************)
\* the elements of the file in document order
RECURSIVE Flatten(_, _)
Flatten(data, f) ==
  IF f > Len(data) THEN <<>>
  ELSE (IF data[f].hasElements THEN data[f].elements ELSE <<>>) \o Flatten(data, f + 1)

IsScenario(e) == e.type = "scenario"

Scenarios(file) == SelectSeq(Flatten(file.data, 1), IsScenario)

FailedStep(e) == e.hasSteps /\ \E i \in DOMAIN e.steps : e.steps[i] = "failed"

\* the durations of the steps that have a result, in nanoseconds
RECURSIVE SumDurations(_, _)
SumDurations(e, todo) ==
  IF todo = {} THEN 0
  ELSE LET i == CHOOSE i \in todo : TRUE
       IN e.durations[i] + SumDurations(e, todo \ {i})

Nanos(e) == SumDurations(e, {i \in DOMAIN e.steps : e.steps[i] # NoResult})

\* thousandths is nanos / 10^9 seconds to the nearest thousandth
NearestThousandth(thousandths, nanos) ==
  /\ thousandths * 1000000 - 500000 <= nanos
  /\ nanos < thousandths * 1000000 + 500000

C23_OneTestcasePerScenario ==
  (report.junit.outcome = "written" /\ report.file.kind = "array")
    => LET scenarios == Scenarios(report.file)
           junit == report.junit
       IN /\ Len(junit.suites) = Len(scenarios)
          /\ junit.tests = Len(scenarios)
          /\ junit.failures = Cardinality({k \in DOMAIN scenarios : FailedStep(scenarios[k])})
          /\ junit.failures <= junit.tests
          /\ \A k \in DOMAIN scenarios :
               LET suite == junit.suites[k]
               IN /\ suite.tests = 1 /\ Len(suite.testcases) = 1
                  /\ Len(suite.testcases[1].failures) = (IF FailedStep(scenarios[k]) THEN 1 ELSE 0)
                  /\ suite.failures = Len(suite.testcases[1].failures)
                  /\ NearestThousandth(suite.time, Nanos(scenarios[k]))
                  /\ suite.testcases[1].time = suite.time

\* a background with a failed step next to a failed scenario whose two steps
\* took 1.2 ms: one testsuite, one failure, time 0.001
C23_Witness ==
  /\ report.junit.outcome = "written"
  /\ Len(report.file.data) = 1 /\ Len(report.file.data[1].elements) = 2
  /\ LET b == report.file.data[1].elements[1]
         e == report.file.data[1].elements[2]
     IN /\ b.type = "background" /\ FailedStep(b)
        /\ e.type = "scenario" /\ e.steps = <<"passed", "failed">>
        /\ e.durations = <<600000, 600000>>
  /\ report.junit.tests = 1 /\ report.junit.failures = 1
  /\ report.junit.suites[1].time = 1

(***************************************************************************)
(* C24: retryAction invokes action at most maxAttempts times, stops at the *)
(* first attempt that succeeds and returns that attempt's value, never     *)
(* invokes action after a success, and runs the attempts one after the     *)
(* other: an attempt starts only after the previous one failed and the     *)
(* delay elapsed.                                                          *)
(***************************************************************************)
Calls(r) == {i \in DOMAIN r.events : r.events[i].e = "called"}

C24_RetryStopsAtFirstSuccess ==
  \A w \in DOMAIN world :
    LET r == world[w].retry
        ev == r.events
    IN /\ Cardinality(Calls(r)) <= (IF r.maxAttempts > 0 THEN r.maxAttempts ELSE 0)
       /\ \A i \in DOMAIN ev :
            /\ ev[i].e = "resolved"
                 => /\ i = Len(ev) /\ r.pc = "returned" /\ r.value = ev[i].n
                    /\ \A j \in 1..(i - 1) : ev[j].e # "resolved"
            /\ ev[i].e = "called"
                 => /\ ev[i].n = Cardinality({j \in Calls(r) : j <= i})
                    /\ i > 1 => /\ i > 3
                                /\ ev[i - 3] = [e |-> "called", n |-> ev[i].n - 1]
                                /\ ev[i - 2] = [e |-> "rejected", n |-> ev[i].n - 1]
                                /\ ev[i - 1] = [e |-> "waited", n |-> ev[i].n - 1]
       /\ r.waited = r.delay * Cardinality({i \in DOMAIN ev : ev[i].e = "waited"})
       /\ r.pc = "returned"
            => /\ ev # <<>> /\ ev[Len(ev)].e = "resolved"
               /\ r.value = Cardinality(Calls(r))

\* two attempts failed, the delay elapsed twice, the third attempt succeeded
C24_Witness ==
  \E w \in DOMAIN world :
    LET r == world[w].retry
    IN /\ r.maxAttempts = 3 /\ r.delay = 1000
       /\ r.pc = "returned" /\ r.value = 3 /\ r.waited = 2000

(***************************************************************************)
(* C25: when all maxAttempts attempts fail, retryAction throws the error   *)
(* of the last attempt, having waited the delay exactly maxAttempts - 1    *)
(* times; for every maxAttempts, 0 and negative included, a call that does *)
(* not return a value throws an Error raised by action.                    *)
(***************************************************************************)
C25_ThrowsLastActionError ==
  \A w \in DOMAIN world :
    LET r == world[w].retry
        rejected == {i \in DOMAIN r.events : r.events[i].e = "rejected"}
    IN r.pc = "threw"
         => /\ r.thrown.kind = "action"
            /\ Cardinality(rejected) = r.maxAttempts
                 => /\ r.thrown = [kind |-> "action", n |-> r.maxAttempts]
                    /\ r.waited = r.delay * (r.maxAttempts - 1)

(***************************************************************************)
(* C26: whenever cleanup() is called on a world whose browser handle is    *)
(* set, browser.close() has been attempted at least once when cleanup()    *)
(* returns, on every path: the normal close sequence, a tracing-stop       *)
(* failure or timeout, the overall cleanup timeout, and a page or context  *)
(* close failure.                                                          *)
(***************************************************************************)
C26_BrowserCloseAttempted ==
  \A w \in DOMAIN world :
    LET r == world[w]
    IN (r.cleanup = "returned" /\ r.browserHandle # 0)
         => /\ r.nBrowserClose + r.nForceClose >= 1
            /\ <<"browser", r.browserHandle>> \in r.closed
            /\ (r.timedOut # "none" \/ r.stopFailed) => r.nForceClose = 1
            /\ (r.timedOut = "none" /\ ~r.stopFailed) => r.nBrowserClose = 1

\* page.close() and context.close() both failed, browser.close() was called
\* after them and cleanup() returned without the force close
C26_Witness ==
  \E w \in DOMAIN world :
    LET r == world[w]
    IN /\ r.cleanup = "returned" /\ r.browserHandle # 0
       /\ r.pageClose = "threw" /\ r.contextClose = "threw"
       /\ r.nBrowserClose = 1 /\ r.nForceClose = 0 /\ r.timedOut = "none"

(***************************************************************************)
(* C27 as claimed: cleanup() calls context.tracing.stop() only on a        *)
(* context on which init() started tracing, also when init() failed        *)
(* between the creation of the context and the start of tracing.           *)
(***************************************************************************)
C27_StopOnlyAfterStart ==
  \A w \in DOMAIN world : world[w].stopCalls > 0 => world[w].tracing # "off"

(***************************************************************************)
(* C27 as amended: cleanup() calls tracing.stop() once, exactly when       *)
(* traces are enabled and the context is set; tracing was started on that  *)
(* context unless init()'s tracing.start() rejected, in which case stop is *)
(* called on tracing that was never started (no page was created, the      *)
(* Before hook failed) and cannot write a trace.                           *)
(***************************************************************************)
C27_StopWheneverContextSet ==
  \A w \in DOMAIN world :
    LET r == world[w]
    IN /\ r.stopCalls = (IF r.cleanupCalls = 1 /\ config.traces /\ r.contextHandle # 0
                           THEN 1 ELSE 0)
       /\ (r.stopCalls > 0 /\ r.tracing = "off")
            => /\ r.contextHandle # 0 /\ r.pageHandle = 0 /\ r.result = "FAILED"
               /\ r.tracePath \notin disk
       /\ (r.stopCalls > 0 /\ r.pageHandle # 0) => r.tracing # "off"

\* tracing.start() rejected in init(); cleanup() called tracing.stop() on the
\* context, the call failed and the catch block closed the browser
C27_Witness ==
  \E w \in DOMAIN world :
    LET r == world[w]
    IN /\ r.stopCalls = 1 /\ r.tracing = "off" /\ r.contextHandle # 0
       /\ r.stopFailed /\ r.cleanup = "returned" /\ r.forceClose = "ok"

(***************************************************************************)
(* C28: the trace file paths of distinct scenarios running concurrently on *)
(* parallel workers are distinct, so that no world's cleanup overwrites or *)
(* deletes another world's trace file, also for scenarios that share their *)
(* sanitized name.                                                         *)
(***************************************************************************)
C28_TracePathsDistinct ==
  \A w, v \in DOMAIN world :
    (w # v /\ world[w].tracePath # NoPath /\ world[v].tracePath # NoPath)
      => world[w].tracePath # world[v].tracePath

(***************************************************************************)
(* C29: the time cleanup()'s own timeouts allow (3000 ms for the tracing   *)
(* stop plus 15000 ms, or 8000 ms in CI, for the close sequence) is        *)
(* strictly below the After hook's timeout of 15000 ms, so that whenever   *)
(* the After hook's cleanup() reaches its force-close fallback the runner  *)
(* has not yet aborted the hook.                                           *)
(***************************************************************************)
C29_ForceCloseBeforeHookTimeout ==
  \A w \in DOMAIN world :
    LET r == world[w]
    IN (r.after = "running" /\ r.pc = "forceClose")
         => /\ r.t < AfterHookTimeout
            /\ TracingStopTimeout + cleanupTimeout(env) < AfterHookTimeout

(***************************************************************************)
(* C30: for the same results file the HTML summary and the JUnit           *)
(* conversion agree: parseTestResults().total is the number of JUnit       *)
(* testcases and parseTestResults().failed is the JUnit failure total, for *)
(* every input, elements that are no scenarios and scenarios without a     *)
(* steps array included.                                                   *)
(***************************************************************************)
C30_SummaryAgreesWithJunit ==
  (report.parsed /\ report.junit.outcome = "written" /\ report.file.kind = "array")
    => /\ report.results.total = Len(report.junit.suites)
       /\ report.results.total = report.junit.tests
       /\ report.results.failed = report.junit.failures

====
